---- MODULE Spec2Model ----
(***************************************************************************)
(* Model of bevy_app's ScheduleRunnerPlugin (schedule_runner.rs): the      *)
(* runner closure installed by ScheduleRunnerPlugin::build, its Once arm,  *)
(* the Loop arm's tick closure, the native while-let loop and the wasm32   *)
(* set_timeout callback.                                                   *)
(*                                                                         *)
(* Option<T> is a sequence of length at most one: <<>> is None, <<x>> is   *)
(* Some(x).  A Duration is a natural number of clock units; one            *)
(* millisecond is UnitsPerMilli units.  Instants are readings of the       *)
(* monotonic clock `now`; only their differences are observed, so the      *)
(* clock origin is moved to the start of every tick.                       *)
(***************************************************************************)
EXTENDS Integers, Sequences, FiniteSets, TLC

VARIABLES
    run_mode,          \* RunMode variant: "Once" or "Loop"
    wait,              \* RunMode::Loop { wait }: Option<Duration>
    target_arch,       \* cfg(target_arch): "native" or "wasm32"
    has_events,        \* whether the world holds the resource Events<AppExit>
    events,            \* Events<AppExit>: every AppExit sent so far, in order
    last_event_count,  \* app_exit_event_reader's cursor
    schedules,         \* main_schedule_label's entry in the world's Schedules
    pc,                \* position of the runner
    now,               \* monotonic clock
    start_time,        \* tick: let start_time = Instant::now()
    end_time,          \* tick: let end_time = Instant::now()
    result,            \* what the last call of tick returned
    timers,            \* pending window.setTimeout calls (their i32 delay argument)
    n_init,            \* calls of app.init_schedule
    n_tick,            \* calls of tick
    n_run,             \* calls of world.run_schedule
    n_sub,             \* calls of app.update_sub_apps
    n_clear,           \* calls of world.clear_trackers
    n_sleep            \* calls of std::thread::sleep

vars == <<run_mode, wait, target_arch, has_events, events, last_event_count,
          schedules, pc, now, start_time, end_time, result, timers,
          n_init, n_tick, n_run, n_sub, n_clear, n_sleep>>

config == <<run_mode, wait, target_arch, has_events>>
counters == <<n_init, n_tick, n_run, n_sub, n_clear, n_sleep>>

----------------------------------------------------------------------------
(* Bounds *)

MaxTicks == 3
MaxEvents == 2
MaxStep == 1
MaxWait == 3
MaxJitter == 1
UnitsPerMilli == 2
IntBits == 4

ExitVals == {"exit_a", "exit_b"}

\* A wait whose millisecond count does not fit the (scaled) signed integer.
BigWait == UnitsPerMilli * (2 ^ (IntBits - 1))

Waits == (0 .. MaxWait) \cup {BigWait}

----------------------------------------------------------------------------
(* Values *)

None == <<>>
Some(x) == <<x>>

NoResult == [kind |-> "None", delay |-> None, exit |-> None]
Ok(d) == [kind |-> "Ok", delay |-> d, exit |-> None]
Err(e) == [kind |-> "Err", delay |-> None, exit |-> Some(e)]

RunModes ==
    {[mode |-> "Once", wait |-> None]}
        \cup {[mode |-> "Loop", wait |-> None]}
        \cup {[mode |-> "Loop", wait |-> Some(d)] : d \in Waits}

\* Sequences over S of length at most n.
RECURSIVE SeqsUpTo(_, _)
SeqsUpTo(S, n) ==
    IF n = 0 THEN {<<>>}
    ELSE LET shorter == SeqsUpTo(S, n - 1)
         IN  shorter \cup {Append(s, x) : s \in {t \in shorter : Len(t) = n - 1}, x \in S}

----------------------------------------------------------------------------
(* External collaborators *)

\* App::init_schedule: creates an empty schedule unless one is present.
init_schedule(s) == IF s = "absent" THEN "empty" ELSE s

\* ManualEventReader::iter(&events).last(): the newest unread event, with the
\* cursor moved past everything unread.
reader_iter_last(evs, cursor) ==
    [exit   |-> IF Len(evs) > cursor THEN Some(evs[Len(evs)]) ELSE None,
     cursor |-> Len(evs)]

\* Duration::as_millis: whole milliseconds, truncated.
as_millis(dur) == dur \div UnitsPerMilli

\* `as i32`: wraps into the signed range of IntBits bits.
as_i32(n) ==
    LET m == n % (2 ^ IntBits)
    IN  IF m >= 2 ^ (IntBits - 1) THEN m - 2 ^ IntBits ELSE m

----------------------------------------------------------------------------
(* Pure parts of the tick closure *)

\* Variant of exit_check that reads through a fresh reader each time, so that
\* app_exit_event_reader's cursor is left where it was.
exit_check_fresh_reader(has, evs, cursor) ==
    IF has THEN [exit |-> reader_iter_last(evs, cursor).exit, cursor |-> cursor]
    ELSE [exit |-> None, cursor |-> cursor]

\* Variant of exit_check written with .next() in place of .last().
exit_check_next(has, evs, cursor) ==
    IF has /\ Len(evs) > cursor
    THEN [exit |-> Some(evs[cursor + 1]), cursor |-> cursor + 1]
    ELSE [exit |-> None, cursor |-> cursor]

\* if let Some(app_exit_events) = get_resource_mut::<Events<AppExit>>() {
\*     if let Some(exit) = app_exit_event_reader.iter(..).last() { return Err(exit) } }
exit_check(has, evs, cursor) ==
    IF has THEN reader_iter_last(evs, cursor)
    ELSE [exit |-> None, cursor |-> cursor]

\* Variant of tick_delay that compares against wait.unwrap_or_default().
tick_delay_unwrap_or_default(w, start, end) ==
    LET exe_time == end - start
        d == IF w # None THEN w[1] ELSE 0
    IN  IF exe_time <= d THEN Ok(Some(d - exe_time)) ELSE Ok(None)

\* Variant of tick_delay that compares with <= in place of <.
tick_delay_le(w, start, end) ==
    IF w # None
    THEN LET exe_time == end - start
         IN  IF exe_time <= w[1] THEN Ok(Some(w[1] - exe_time)) ELSE Ok(None)
    ELSE Ok(None)

\* if let Some(wait) = wait { let exe_time = end_time - start_time;
\*     if exe_time < wait { return Ok(Some(wait - exe_time)); } }  Ok(None)
tick_delay(w, start, end) ==
    IF w # None
    THEN LET exe_time == end - start
         IN  IF exe_time < w[1] THEN Ok(Some(w[1] - exe_time)) ELSE Ok(None)
    ELSE Ok(None)

\* let asap = Duration::from_millis(1);
asap == 1 * UnitsPerMilli

\* set_timeout(f, dur): window.setTimeout(f, dur.as_millis() as i32)
set_timeout(pending, dur) == Append(pending, as_i32(as_millis(dur)))

----------------------------------------------------------------------------
(* Initial state: an App that has been built but not yet run *)

Init ==
    /\ \E rm \in RunModes : run_mode = rm.mode /\ wait = rm.wait
    /\ target_arch \in {"native", "wasm32"}
    /\ has_events \in BOOLEAN
    /\ events = <<>>
    /\ last_event_count = 0
    /\ schedules \in {"absent", "populated"}
    /\ pc = "build"
    /\ now = 0
    /\ start_time = 0
    /\ end_time = 0
    /\ result = NoResult
    /\ timers = <<>>
    /\ n_init = 0 /\ n_tick = 0 /\ n_run = 0
    /\ n_sub = 0 /\ n_clear = 0 /\ n_sleep = 0

----------------------------------------------------------------------------
(* Actions *)

\* An AppExit event sent before the app is run.
SendAppExit ==
    /\ pc = "build"
    /\ has_events
    /\ Len(events) < MaxEvents
    /\ \E v \in ExitVals : events' = Append(events, v)
    /\ UNCHANGED <<config, last_event_count, schedules, pc, now, start_time,
                   end_time, result, timers, counters>>

\* Variant of RunnerStart whose wasm32 arm arms the timer and also calls the
\* first tick itself.
RunnerStart_runs_first_tick ==
    /\ pc = "build"
    /\ schedules' = init_schedule(schedules)
    /\ n_init' = n_init + 1
    /\ last_event_count' = 0
    /\ IF run_mode = "Once"
       THEN pc' = "once_run" /\ timers' = timers
       ELSE IF target_arch = "native"
            THEN pc' = "tick" /\ timers' = timers
            ELSE pc' = "tick" /\ timers' = set_timeout(timers, asap)
    /\ UNCHANGED <<config, events, now, start_time, end_time, result,
                   n_tick, n_run, n_sub, n_clear, n_sleep>>

\* Variant of RunnerStart whose wasm32 arm calls set_timeout through f and
\* through g, arming two timers.
RunnerStart_arms_twice ==
    /\ pc = "build"
    /\ schedules' = init_schedule(schedules)
    /\ n_init' = n_init + 1
    /\ last_event_count' = 0
    /\ IF run_mode = "Once"
       THEN pc' = "once_run" /\ timers' = timers
       ELSE IF target_arch = "native"
            THEN pc' = "tick" /\ timers' = timers
            ELSE pc' = "host" /\ timers' = set_timeout(set_timeout(timers, asap), asap)
    /\ UNCHANGED <<config, events, now, start_time, end_time, result,
                   n_tick, n_run, n_sub, n_clear, n_sleep>>

\* Variant of RunnerStart that omits app.init_schedule.
RunnerStart_no_init_schedule ==
    /\ pc = "build"
    /\ last_event_count' = 0
    /\ IF run_mode = "Once"
       THEN pc' = "once_run" /\ timers' = timers
       ELSE IF target_arch = "native"
            THEN pc' = "tick" /\ timers' = timers
            ELSE pc' = "host" /\ timers' = set_timeout(timers, asap)
    /\ UNCHANGED <<config, events, schedules, now, start_time, end_time, result,
                   counters>>

\* The runner closure up to the match on run_mode; in the wasm32 Loop arm the
\* whole closure: it arms the first timer and returns to the host.
RunnerStart ==
    /\ pc = "build"
    /\ schedules' = init_schedule(schedules)
    /\ n_init' = n_init + 1
    /\ last_event_count' = 0
    /\ IF run_mode = "Once"
       THEN pc' = "once_run" /\ timers' = timers
       ELSE IF target_arch = "native"
            THEN pc' = "tick" /\ timers' = timers
            ELSE pc' = "host" /\ timers' = set_timeout(timers, asap)
    /\ UNCHANGED <<config, events, now, start_time, end_time, result,
                   n_tick, n_run, n_sub, n_clear, n_sleep>>

\* RunMode::Once: app.world.run_schedule(main_schedule_label)
OnceRunSchedule ==
    /\ pc = "once_run"
    /\ n_run' = n_run + 1
    /\ \E dt \in 0 .. MaxStep : now' = now + dt
    /\ \E sent \in SeqsUpTo(ExitVals, IF has_events THEN MaxEvents - Len(events) ELSE 0) :
           events' = events \o sent
    /\ pc' = "once_sub_apps"
    /\ UNCHANGED <<config, last_event_count, schedules, start_time, end_time,
                   result, timers, n_init, n_tick, n_sub, n_clear, n_sleep>>

\* RunMode::Once: app.update_sub_apps(), after which the runner returns.
OnceUpdateSubApps ==
    /\ pc = "once_sub_apps"
    /\ n_sub' = n_sub + 1
    /\ \E dt \in 0 .. MaxStep : now' = now + dt
    /\ \E sent \in SeqsUpTo(ExitVals, IF has_events THEN MaxEvents - Len(events) ELSE 0) :
           events' = events \o sent
    /\ pc' = "returned"
    /\ UNCHANGED <<config, last_event_count, schedules, start_time, end_time,
                   result, timers, n_init, n_tick, n_run, n_clear, n_sleep>>

\* tick is called: let start_time = Instant::now(); end_time and the value the
\* call will return are not set yet.
TickStart ==
    /\ pc = "tick"
    /\ n_tick < MaxTicks
    /\ n_tick' = n_tick + 1
    /\ now' = 0
    /\ start_time' = now'
    /\ end_time' = 0
    /\ result' = NoResult
    /\ pc' = "pre_check"
    /\ UNCHANGED <<config, events, last_event_count, schedules,
                   timers, n_init, n_run, n_sub, n_clear, n_sleep>>

\* Variant of PreRunExitCheck that calls world.clear_trackers() before it
\* returns Err.
PreRunExitCheck_clears_before_exit ==
    /\ pc = "pre_check"
    /\ LET chk == exit_check(has_events, events, last_event_count)
       IN  /\ last_event_count' = chk.cursor
           /\ IF chk.exit # None
              THEN /\ result' = Err(chk.exit[1]) /\ pc' = "tick_return"
                   /\ n_clear' = n_clear + 1
              ELSE /\ result' = result /\ pc' = "run_schedule"
                   /\ n_clear' = n_clear
    /\ UNCHANGED <<config, events, schedules, now, start_time, end_time,
                   timers, n_init, n_tick, n_run, n_sub, n_sleep>>

\* Variant of PreRunExitCheck written with world.resource_mut, which panics
\* when the world holds no Events<AppExit>.
PreRunExitCheck_resource_mut ==
    /\ pc = "pre_check"
    /\ IF has_events
       THEN LET chk == reader_iter_last(events, last_event_count)
            IN  /\ last_event_count' = chk.cursor
                /\ IF chk.exit # None
                   THEN result' = Err(chk.exit[1]) /\ pc' = "tick_return"
                   ELSE result' = result /\ pc' = "run_schedule"
       ELSE /\ pc' = "panicked"
            /\ UNCHANGED <<last_event_count, result>>
    /\ UNCHANGED <<config, events, schedules, now, start_time, end_time,
                   timers, counters>>

\* Variant of PreRunExitCheck without the check: the tick runs the schedule at once.
PreRunExitCheck_skipped ==
    /\ pc = "pre_check"
    /\ pc' = "run_schedule"
    /\ UNCHANGED <<config, events, last_event_count, schedules, now, start_time,
                   end_time, result, timers, counters>>

\* tick: the exit check before the schedule is run.
PreRunExitCheck ==
    /\ pc = "pre_check"
    /\ LET chk == exit_check(has_events, events, last_event_count)
       IN  /\ last_event_count' = chk.cursor
           /\ IF chk.exit # None
              THEN result' = Err(chk.exit[1]) /\ pc' = "tick_return"
              ELSE result' = result /\ pc' = "run_schedule"
    /\ UNCHANGED <<config, events, schedules, now, start_time, end_time,
                   timers, counters>>

\* Variant of RunSchedule in a tick that leaves out app.update_sub_apps().
RunSchedule_without_sub_apps ==
    /\ pc = "run_schedule"
    /\ n_run' = n_run + 1
    /\ \E dt \in 0 .. MaxStep : now' = now + dt
    /\ \E sent \in SeqsUpTo(ExitVals, IF has_events THEN MaxEvents - Len(events) ELSE 0) :
           events' = events \o sent
    /\ pc' = "clear_trackers"
    /\ UNCHANGED <<config, last_event_count, schedules, start_time, end_time,
                   result, timers, n_init, n_tick, n_sub, n_clear, n_sleep>>

\* tick: app.world.run_schedule(&main_schedule_label)
RunSchedule ==
    /\ pc = "run_schedule"
    /\ n_run' = n_run + 1
    /\ \E dt \in 0 .. MaxStep : now' = now + dt
    /\ \E sent \in SeqsUpTo(ExitVals, IF has_events THEN MaxEvents - Len(events) ELSE 0) :
           events' = events \o sent
    /\ pc' = "update_sub_apps"
    /\ UNCHANGED <<config, last_event_count, schedules, start_time, end_time,
                   result, timers, n_init, n_tick, n_sub, n_clear, n_sleep>>

\* tick: app.update_sub_apps()
UpdateSubApps ==
    /\ pc = "update_sub_apps"
    /\ n_sub' = n_sub + 1
    /\ \E dt \in 0 .. MaxStep : now' = now + dt
    /\ \E sent \in SeqsUpTo(ExitVals, IF has_events THEN MaxEvents - Len(events) ELSE 0) :
           events' = events \o sent
    /\ pc' = "clear_trackers"
    /\ UNCHANGED <<config, last_event_count, schedules, start_time, end_time,
                   result, timers, n_init, n_tick, n_run, n_clear, n_sleep>>

\* tick: app.world.clear_trackers()
ClearTrackers ==
    /\ pc = "clear_trackers"
    /\ n_clear' = n_clear + 1
    /\ \E dt \in 0 .. MaxStep : now' = now + dt
    /\ pc' = "post_check"
    /\ UNCHANGED <<config, events, last_event_count, schedules, start_time,
                   end_time, result, timers, n_init, n_tick, n_run, n_sub, n_sleep>>

\* Variant of PostRunExitCheck without the check: signals wait for the next tick.
PostRunExitCheck_skipped ==
    /\ pc = "post_check"
    /\ pc' = "end_time"
    /\ UNCHANGED <<config, events, last_event_count, schedules, now, start_time,
                   end_time, result, timers, counters>>

\* tick: the exit check after the schedule and the hooks have run.
PostRunExitCheck ==
    /\ pc = "post_check"
    /\ LET chk == exit_check(has_events, events, last_event_count)
       IN  /\ last_event_count' = chk.cursor
           /\ IF chk.exit # None
              THEN result' = Err(chk.exit[1]) /\ pc' = "tick_return"
              ELSE result' = result /\ pc' = "end_time"
    /\ UNCHANGED <<config, events, schedules, now, start_time, end_time,
                   timers, counters>>

\* tick: let end_time = Instant::now(); and the delay it returns.
TickEnd ==
    /\ pc = "end_time"
    /\ end_time' = now
    /\ result' = tick_delay(wait, start_time, end_time')
    /\ pc' = "tick_return"
    /\ UNCHANGED <<config, events, last_event_count, schedules, now,
                   start_time, timers, counters>>

\* Variant of NativeLoop that drops the returned delay and never sleeps.
NativeLoop_never_sleeps ==
    /\ pc = "tick_return"
    /\ target_arch = "native"
    /\ pc' = IF result.kind = "Ok" THEN "tick" ELSE "exited"
    /\ UNCHANGED <<config, events, last_event_count, schedules, now,
                   start_time, end_time, result, timers, counters>>

\* Variant of NativeLoop written as while let Ok(Some(delay)) = tick(..).
NativeLoop_while_some ==
    /\ pc = "tick_return"
    /\ target_arch = "native"
    /\ pc' = IF result.kind = "Ok" /\ result.delay # None THEN "sleep" ELSE "exited"
    /\ UNCHANGED <<config, events, last_event_count, schedules, now,
                   start_time, end_time, result, timers, counters>>

\* Variant of NativeLoop written as loop { if let Ok(Some(delay)) = tick(..) {..} }.
NativeLoop_ignores_err ==
    /\ pc = "tick_return"
    /\ target_arch = "native"
    /\ pc' = IF result.kind = "Ok" /\ result.delay # None THEN "sleep" ELSE "tick"
    /\ UNCHANGED <<config, events, last_event_count, schedules, now,
                   start_time, end_time, result, timers, counters>>

\* native: while let Ok(delay) = tick(&mut app, wait) { if let Some(delay) = delay {..} }
NativeLoop ==
    /\ pc = "tick_return"
    /\ target_arch = "native"
    /\ pc' = IF result.kind = "Ok"
             THEN IF result.delay # None THEN "sleep" ELSE "tick"
             ELSE "exited"
    /\ UNCHANGED <<config, events, last_event_count, schedules, now,
                   start_time, end_time, result, timers, counters>>

\* native: std::thread::sleep(delay) blocks for at least delay.
NativeSleep ==
    /\ pc = "sleep"
    /\ n_sleep' = n_sleep + 1
    /\ \E j \in 0 .. MaxJitter : now' = now + result.delay[1] + j
    /\ pc' = "tick"
    /\ UNCHANGED <<config, events, last_event_count, schedules, start_time,
                   end_time, result, timers, n_init, n_tick, n_run, n_sub, n_clear>>

\* wasm32: the host dispatches a pending timer, whose callback c calls tick.
\* A timer fires no earlier than its delay; a negative delay counts as zero.
TimerFire ==
    /\ pc = "host"
    /\ timers # <<>>
    /\ LET ms == Head(timers)
       IN  \E j \in 0 .. MaxJitter :
               now' = now + (IF ms > 0 THEN ms * UnitsPerMilli ELSE 0) + j
    /\ timers' = Tail(timers)
    /\ pc' = "tick"
    /\ UNCHANGED <<config, events, last_event_count, schedules, start_time,
                   end_time, result, counters>>

\* Variant of WasmCallback that calls tick again at once when no delay is due.
WasmCallback_recurses_without_delay ==
    /\ pc = "tick_return"
    /\ target_arch = "wasm32"
    /\ timers' = IF result.kind = "Ok" /\ result.delay # None
                 THEN set_timeout(timers, result.delay[1])
                 ELSE timers
    /\ pc' = IF result.kind = "Ok" /\ result.delay = None THEN "tick" ELSE "host"
    /\ UNCHANGED <<config, events, last_event_count, schedules, now,
                   start_time, end_time, result, counters>>

\* Variant of WasmCallback that re-arms the timer whatever tick returned.
WasmCallback_always_rearms ==
    /\ pc = "tick_return"
    /\ target_arch = "wasm32"
    /\ timers' = set_timeout(timers, IF result.delay # None
                                     THEN result.delay[1] ELSE asap)
    /\ pc' = "host"
    /\ UNCHANGED <<config, events, last_event_count, schedules, now,
                   start_time, end_time, result, counters>>

\* wasm32: callback c after tick returned: match delay { Ok(delay) =>
\* set_timeout(.., delay.unwrap_or(asap)), Err(_) => {} }
WasmCallback ==
    /\ pc = "tick_return"
    /\ target_arch = "wasm32"
    /\ timers' = IF result.kind = "Ok"
                 THEN set_timeout(timers, IF result.delay # None
                                          THEN result.delay[1] ELSE asap)
                 ELSE timers
    /\ pc' = "host"
    /\ UNCHANGED <<config, events, last_event_count, schedules, now,
                   start_time, end_time, result, counters>>

Next ==
    \/ SendAppExit
    \/ RunnerStart
    \/ OnceRunSchedule
    \/ OnceUpdateSubApps
    \/ TickStart
    \/ PreRunExitCheck
    \/ RunSchedule
    \/ UpdateSubApps
    \/ ClearTrackers
    \/ PostRunExitCheck
    \/ TickEnd
    \/ NativeLoop
    \/ NativeSleep
    \/ TimerFire
    \/ WasmCallback

Spec == Init /\ [][Next]_vars

\* The actions of the runner itself: everything but the environment's sends.
RunnerStep ==
    \/ RunnerStart
    \/ OnceRunSchedule
    \/ OnceUpdateSubApps
    \/ TickStart
    \/ PreRunExitCheck
    \/ RunSchedule
    \/ UpdateSubApps
    \/ ClearTrackers
    \/ PostRunExitCheck
    \/ TickEnd
    \/ NativeLoop
    \/ NativeSleep
    \/ TimerFire
    \/ WasmCallback

\* The host runs the app, every schedule and hook returns, the native thread
\* keeps running and the host event loop dispatches pending timers.
FairSpec == Spec /\ WF_vars(RunnerStep)

----------------------------------------------------------------------------
(* Properties *)

Unread == Len(events) - last_event_count

\* The Loop-mode runner has stopped: the native runner returned, or the wasm32
\* runner is back in the host with no timer pending.
Stopped ==
    /\ run_mode = "Loop"
    /\ \/ pc = "exited"
       \/ pc = "host" /\ timers = <<>>

\* C1: in Loop mode, when an exit signal is in the queue before the first tick,
\* the first call of tick returns Err carrying the newest such signal at its
\* pre-run check, and run_schedule (and both hooks) are not invoked in that tick.
C1_PrePostedExitStopsFirstTick ==
    [][(run_mode = "Loop" /\ pc = "pre_check" /\ n_tick = 1 /\ events # <<>>)
          => /\ pc' = "tick_return"
             /\ result' = Err(events[Len(events)])
             /\ n_run' = 0 /\ n_sub' = 0 /\ n_clear' = 0]_vars

C1_Witness ==
    /\ run_mode = "Loop" /\ pc = "tick_return" /\ n_tick = 1
    /\ events # <<>> /\ result = Err(events[Len(events)]) /\ n_run = 0

\* C2: once a tick has returned Err, no step of the runner calls tick,
\* run_schedule, update_sub_apps, clear_trackers or sleep again, and no timer
\* is armed.
C2_NoTickAfterTerminal ==
    [][result.kind = "Err"
          => /\ n_tick' = n_tick /\ n_run' = n_run /\ n_sub' = n_sub
             /\ n_clear' = n_clear /\ n_sleep' = n_sleep
             /\ timers' = timers /\ timers = <<>>
             /\ pc' \in {"exited", "host"}]_vars

C2_Witness ==
    /\ result.kind = "Err" /\ target_arch = "wasm32" /\ pc = "host"
    /\ timers = <<>> /\ n_run >= 1

\* C3: an exit check that finds unread signals moves the cursor past all of
\* them and returns Err carrying the most recently posted one; the value
\* reported is never replaced by an earlier signal afterwards.
C3_LastExitWins ==
    /\ [][(pc \in {"pre_check", "post_check"} /\ has_events /\ Unread >= 1)
             => /\ last_event_count' = Len(events)
                /\ result' = Err(events[Len(events)])
                /\ pc' = "tick_return"]_vars
    /\ [][result.kind = "Err"
             => (result' = result /\ last_event_count' = last_event_count)]_vars

C3_Witness ==
    /\ pc = "tick_return" /\ result.kind = "Err" /\ n_run >= 1
    /\ Len(events) = 2 /\ events[1] # events[2]
    /\ result.exit = Some(events[2]) /\ last_event_count = 2

\* C4: in Loop mode with wait = None and no exit signal posted, every call of
\* tick returns Ok(None), and when the N-th call returns run_schedule has been
\* invoked exactly N times.
C4_NoWaitNoExitContinues ==
    (run_mode = "Loop" /\ wait = None /\ events = <<>> /\ pc = "tick_return")
        => (result = Ok(None) /\ n_run = n_tick /\ n_tick >= 1)

C4_Witness ==
    /\ run_mode = "Loop" /\ wait = None /\ events = <<>> /\ pc = "tick_return"
    /\ n_tick = 3 /\ n_run = 3 /\ result = Ok(None)

C6_OnceRunsScheduleAndBothHooks ==
    (run_mode = "Once" /\ pc = "returned")
        => /\ n_run = 1 /\ n_sub = 1 /\ n_clear = 1
           /\ n_tick = 0 /\ n_sleep = 0 /\ timers = <<>>
           /\ last_event_count = 0 /\ result = NoResult

\* C7: init_schedule is called exactly once per run of the runner, before the
\* first run_schedule; run_schedule is never called while the target schedule
\* is absent; a schedule that is present is left as it is.
C7_ScheduleEnsuredOnceBeforeRun ==
    /\ [](/\ n_init <= 1
          /\ pc # "build" => (n_init = 1 /\ schedules # "absent")
          /\ n_run > 0 => n_init = 1)
    /\ [][n_run' # n_run => (schedules # "absent" /\ n_init = 1)]_vars
    /\ [][schedules # "absent" => schedules' = schedules]_vars

C7_Witness ==
    /\ n_run = 2 /\ n_init = 1 /\ schedules = "empty"

\* C8: in Loop mode a signal posted while a tick executes is unread only inside
\* that tick, before its post-run check; that check returns Err carrying it,
\* and run_schedule is not invoked while it is unread.
C8_ExitDuringTickStopsSameTick ==
    /\ []((run_mode = "Loop" /\ Unread >= 1 /\ n_run >= 1)
             => pc \in {"update_sub_apps", "clear_trackers", "post_check"})
    /\ [][(run_mode = "Loop" /\ Unread >= 1 /\ n_run >= 1)
             => /\ n_run' = n_run
                /\ pc = "post_check"
                     => /\ pc' = "tick_return"
                        /\ result' = Err(events[Len(events)])]_vars

C8_Witness ==
    /\ run_mode = "Loop" /\ pc = "tick_return" /\ result.kind = "Err"
    /\ n_tick = 2 /\ n_run = 2 /\ n_clear = 2

\* C9: the Loop-mode runner is stopped only after a tick's exit check read a
\* posted exit signal and the tick returned Err carrying it.
C9_StopsOnlyOnExit ==
    Stopped
        => /\ events # <<>>
           /\ has_events
           /\ last_event_count = Len(events)
           /\ result = Err(events[Len(events)])

C9_Witness ==
    Stopped /\ target_arch = "native" /\ n_run >= 1 /\ events # <<>>

\* C10: in Loop mode, under fair scheduling of the runner, a posted exit signal
\* leads to the stopped state.
C10_ExitLeadsToStopped ==
    (run_mode = "Loop" /\ events # <<>>) ~> Stopped

C10_Witness ==
    Stopped /\ target_arch = "wasm32" /\ n_tick = 1 /\ n_run = 0 /\ events # <<>>


\* C11: in a Loop-mode tick that passed the pre-run check, run_schedule, then
\* update_sub_apps, then clear_trackers are each invoked once, in that order,
\* and all three are done before the post-run check and before end_time is read.
C11_TickStepsInOrder ==
    run_mode = "Loop"
        => /\ pc = "run_schedule"
                => (n_run = n_tick - 1 /\ n_sub = n_tick - 1 /\ n_clear = n_tick - 1)
           /\ pc = "update_sub_apps"
                => (n_run = n_tick /\ n_sub = n_tick - 1 /\ n_clear = n_tick - 1)
           /\ pc = "clear_trackers"
                => (n_run = n_tick /\ n_sub = n_tick /\ n_clear = n_tick - 1)
           /\ pc \in {"post_check", "end_time"}
                => (n_run = n_tick /\ n_sub = n_tick /\ n_clear = n_tick)
           /\ (pc = "tick_return" /\ result.kind = "Ok")
                => (n_run = n_tick /\ n_sub = n_tick /\ n_clear = n_tick)

C11_Witness ==
    /\ run_mode = "Loop" /\ pc = "end_time" /\ n_tick = 2
    /\ n_run = 2 /\ n_sub = 2 /\ n_clear = 2


\* C12: the reader's cursor never decreases; after every exit check it equals
\* the number of signals posted so far; a check reports only a signal beyond
\* the cursor (so none is reported twice), and a check that finds signals
\* beyond the cursor does not pass over them.
C12_CursorMonotone ==
    /\ [](last_event_count <= Len(events))
    /\ [][last_event_count' >= last_event_count]_vars
    /\ [][(pc \in {"pre_check", "post_check"})
             => /\ last_event_count' = Len(events)
                /\ (Unread >= 1 => result' = Err(events[Len(events)]))
                /\ (result'.kind = "Err" => Unread >= 1)]_vars

C12_Witness ==
    /\ pc = "tick_return" /\ n_run = 0 /\ last_event_count = 2
    /\ Len(events) = 2 /\ result.kind = "Err"


C14_WasmTicksOnlyFromTimers ==
    /\ [][(target_arch = "wasm32" /\ run_mode = "Loop" /\ pc = "build")
             => (n_tick' = 0 /\ pc' \in {"build", "host"})]_vars
    /\ [][(target_arch = "wasm32" /\ pc' = "tick" /\ pc # "tick")
             => (pc = "host" /\ timers # <<>> /\ timers' = Tail(timers))]_vars
    /\ [][(target_arch = "wasm32" /\ n_tick' = n_tick + 1) => pc = "tick"]_vars
    /\ [][(target_arch = "wasm32" /\ pc = "tick_return")
             => (pc' = "host" /\ n_tick' = n_tick)]_vars

C14_Witness ==
    /\ target_arch = "wasm32" /\ wait = None /\ run_mode = "Loop"
    /\ pc = "pre_check" /\ n_tick = 2


\* A call of tick is between its start_time and its return.
InTick ==
    pc \in {"pre_check", "run_schedule", "update_sub_apps", "clear_trackers",
            "post_check", "end_time", "tick_return"}

\* C15: a tick begins only while no tick is in flight; while one is in flight
\* no timer of the runner is pending that could start another; and in Loop
\* mode the schedule and the hooks act on the app only inside the tick in flight.
C15_OneTickInFlight ==
    /\ [](InTick => timers = <<>>)
    /\ [][n_tick' # n_tick => (~InTick /\ pc = "tick" /\ n_tick' = n_tick + 1)]_vars
    /\ [][(run_mode = "Loop" /\ pc # "build"
             /\ <<events, n_run, n_sub, n_clear>>' # <<events, n_run, n_sub, n_clear>>)
             => (InTick /\ InTick')]_vars

C15_Witness ==
    /\ target_arch = "wasm32" /\ pc = "update_sub_apps" /\ n_tick = 2
    /\ timers = <<>>


\* C16: on wasm32, after a tick returned Ok, exactly one timer is armed and its
\* delay is the returned delay d, or one millisecond when no delay was
\* returned, for every d.
C16_TimerArmedWithReturnedDelay ==
    [][(target_arch = "wasm32" /\ pc = "tick_return" /\ result.kind = "Ok")
          => LET d == IF result.delay # None THEN result.delay[1] ELSE asap
             IN  /\ Len(timers') = 1
                 /\ timers'[1] * UnitsPerMilli = d]_vars


\* C17: on wasm32 at most one timer of the runner is pending; the runner call
\* arms exactly one, a tick that returned Ok is followed by exactly one more,
\* a tick that returned Err by none, and nothing else arms a timer.
C17_AtMostOneTimer ==
    /\ [](Len(timers) <= 1)
    /\ []((target_arch = "native" \/ run_mode = "Once") => timers = <<>>)
    /\ [][(target_arch = "wasm32" /\ run_mode = "Loop" /\ pc = "build" /\ pc' # "build")
             => Len(timers') = Len(timers) + 1]_vars
    /\ [][(target_arch = "wasm32" /\ pc = "tick_return")
             => Len(timers') = Len(timers) + (IF result.kind = "Ok" THEN 1 ELSE 0)]_vars
    /\ [][Len(timers') > Len(timers) => pc \in {"build", "tick_return"}]_vars

C17_Witness ==
    /\ target_arch = "wasm32" /\ pc = "host" /\ Len(timers) = 1 /\ n_tick = 2
    /\ result.kind = "Ok"


\* C18: when the world holds no Events<AppExit>, an exit check changes nothing
\* and the tick goes on; a Loop-mode run without the queue never returns Err,
\* never stops, has run the schedule in every tick, and keeps ticking (here:
\* up to the bound on ticks).
C18_AbsentQueueNeverStops ==
    /\ [][(~has_events /\ pc \in {"pre_check", "post_check"})
             => /\ last_event_count' = last_event_count
                /\ result' = result
                /\ pc' = (IF pc = "pre_check" THEN "run_schedule" ELSE "end_time")]_vars
    /\ []((~has_events /\ run_mode = "Loop")
             => /\ result.kind # "Err"
                /\ ~Stopped
                /\ events = <<>>
                /\ pc = "tick_return" => n_run = n_tick)
    /\ ((~has_events /\ run_mode = "Loop") ~> (n_tick = MaxTicks /\ n_run = MaxTicks))

C18_Witness ==
    /\ ~has_events /\ run_mode = "Loop" /\ pc = "tick_return"
    /\ n_tick = 3 /\ n_run = 3 /\ result.kind = "Ok"


\* C19: a Loop-mode tick that returns Err at its pre-run check has invoked none
\* of run_schedule, update_sub_apps, clear_trackers and changed nothing but the
\* cursor; one that returns Err at its post-run check has invoked each of the
\* three once; either way the Err carries no delay and no sleep or timer
\* follows it.
C19_TerminalTickFrame ==
    /\ [][(run_mode = "Loop" /\ pc = "pre_check" /\ result'.kind = "Err")
             => /\ UNCHANGED <<config, events, schedules, now, start_time,
                               end_time, timers, counters>>
                /\ last_event_count' = Len(events)
                /\ n_run = n_tick - 1 /\ n_sub = n_tick - 1 /\ n_clear = n_tick - 1]_vars
    /\ [][(run_mode = "Loop" /\ pc = "post_check" /\ result'.kind = "Err")
             => /\ UNCHANGED counters
                /\ n_run = n_tick /\ n_sub = n_tick /\ n_clear = n_tick]_vars
    /\ [](result.kind = "Err"
             => (result.delay = None /\ pc \in {"tick_return", "exited", "host"}))
    /\ [][result.kind = "Err"
             => (n_sleep' = n_sleep /\ timers' = timers /\ now' = now)]_vars

C19_Witness ==
    /\ run_mode = "Loop" /\ target_arch = "native" /\ pc = "exited"
    /\ result.kind = "Err" /\ n_tick = 2 /\ n_clear = 2 /\ n_sleep = 1

====
